---------------------------- MODULE Spec2Model ----------------------------
(***************************************************************************)
(* TicketHunter (app.py): recurring search tasks, the per-post worker pool *)
(* (process_single_feed), the store (database.py), the APScheduler timers  *)
(* held by Monitor, and the SSE event queue.                               *)
(*                                                                         *)
(* Threads are modelled by interleaving: every action is one block of code *)
(* between two points where another thread can observe or change shared    *)
(* state (the store, db_lock, the scheduler's job table, event_queue).      *)
(***************************************************************************)
EXTENDS Integers, Sequences, FiniteSets, TLC

(* ------------------------------ bounds --------------------------------- *)
\* tasks created over a behaviour that follows the scheduler, the pool or
\* the event queue
MaxTasks == 1
\* tasks created over a behaviour that follows the store (at least MaxTasks)
MaxStoreTasks == 2
\* feeds of kind note handed to worker pools over a behaviour (all runs)
MaxPosts == 2
\* timer-triggered runs of one task
MaxRuns == 1
\* pause, resume and stop requests over a behaviour
MaxCalls == 2
\* clients that open /stream over a behaviour
MaxSubs == 2
\* ticks of the clock between two readings of it within one handler
MaxDrift == 1
\* feeds one search returns, where the loop over the results is followed
\* on its own
MaxFetched == 6
\* heartbeat frames one /stream response yields
MaxBeats == 1
\* INSERTs and COMMITs of the workers that the database fails
MaxFaults == 1
\* timer-triggered runs of one task over a behaviour that follows the timer
\* callback alone (a failed run and the runs after it)
MaxFires == 2

(* ------------------------- program constants --------------------------- *)
\* ThreadPoolExecutor(max_workers=5)
PoolWidth == 5
\* schedule_interval=60 / interval_seconds=60
ScheduleInterval == 60
\* processed_notes % 5 == 0
ProgressEvery == 5

TaskIds == 1..MaxStoreTasks
SchedIds == 1..MaxTasks
Workers == 1..MaxPosts
NoteIds == {"n1", "n2"}
RunKinds == {"create", "timer"}
RunIds == TaskIds \X RunKinds
NoLock == 0
NoRun == <<0, "none">>
Subscribers == 1..MaxSubs

(* A feed as search_feeds returns it: modelType, id, noteCard.             *)
Feed(mt, id, card) == [modelType |-> mt, id |-> id, noteCard |-> card]
FeedItems ==
    {Feed("note", n, TRUE) : n \in NoteIds}
        \cup {Feed("video", "n1", TRUE), Feed("note", "", TRUE)}

\* The pool runs all submitted feeds concurrently (their number is below
\* PoolWidth), so the order of the list is immaterial: one list per multiset.
Rank(f) ==
    IF f.modelType # "note" THEN 0
    ELSE IF f.id = "" THEN 1
    ELSE IF f.id = "n1" THEN 2 ELSE 3

FeedLists(k) ==
    {s \in UNION {[1..n -> FeedItems] : n \in 0..k} :
        \A i \in 1..(Len(s) - 1) : Rank(s[i]) <= Rank(s[i + 1])}

\* analyze_ticket_content: negative (also every failure of the call),
\* positive, positive with an event_date strptime cannot parse.
Verdicts == {"neg", "pos", "posbad"}

VARIABLES
    notes,          \* committed rows of table notes
    tickets,        \* committed rows of table tickets
    tasks,          \* committed rows of table workflow_executions
    db_lock,        \* holder of db_lock, or NoLock
    session,        \* per worker thread: rows flushed but not committed
    wk,             \* process_single_feed calls, one per submitted feed
    runs,           \* execute_search_task / execute_scheduled_task calls
    jobs,           \* the jobs in the BackgroundScheduler's job store
    task_jobs,      \* keys of Monitor.task_jobs
    is_running,     \* Monitor.is_running: the scheduler has been started
    refiner,        \* what the language model answers a refinement request
    classifier,     \* what it answers a classification request
    event_queue,    \* every message put on the global Queue, in put order
    taken,          \* how many of them get() has removed: the Queue holds
                    \* the messages after the first `taken`
    subs,           \* the /stream responses: one generator per client
    store_faults,   \* statements the database will still fail
    clock,          \* logical time (datetime.utcnow)
    feed_source,    \* what the feed service holds for the keyword
    api             \* the last admin call and what it returned

vars == <<notes, tickets, tasks, db_lock, session, wk, runs, jobs, task_jobs,
          event_queue, taken, subs, store_faults, clock, feed_source, api,
          is_running, refiner, classifier>>

(* ------------------------------- store --------------------------------- *)
NoTask == [status |-> "absent", is_scheduled |-> FALSE, run_count |-> 0,
           message |-> "", created_at |-> 0, last_run_at |-> 0,
           next_run_at |-> 0, schedule_interval |-> 0]

TaskExists(t) == tasks[t].status # "absent"

\* db.session.get(Note, feed_id): the session's identity map, then the table
NoteExists(sess, id) == \E n \in notes \cup sess : n.note_id = id

\* The mutant of TicketExists: a query that never finds the ticket.
TicketNeverFound(id) == FALSE

\* Ticket.query.filter_by(note_id=feed_id).first()
TicketExists(id) == \E k \in tickets : k.note_id = id

\* db.session.add(note); db.session.flush(): the INSERT is sent inside the
\* session's open transaction, nothing is committed
Flush(sess, id) == sess \cup {[note_id |-> id, created_at |-> clock]}

\* Leaving "with app.app_context()": Flask-SQLAlchemy's teardown handler calls
\* db.session.remove(), which closes the scoped session of this context and
\* rolls back whatever it had not committed.  The next app_context() of the
\* same thread starts a fresh, empty session.
AppContextExit(sess) == {}

\* db.session.commit(): the session's pending rows become table rows
Commit(sess) == notes \cup sess

NextTicketId ==
    IF tickets = {} THEN 1
    ELSE 1 + (CHOOSE m \in {k.id : k \in tickets} :
                 \A k \in tickets : k.id <= m)

(* ------------------------------ db_lock -------------------------------- *)
\* The mutant of db_lock_free: a lock that never excludes anybody.
db_lock_unguarded == TRUE

\* "with db_lock:" blocks until no thread holds the one global Lock
db_lock_free == db_lock = NoLock

\* The mutant of db_lock_exit: the holder keeps the lock past the block.
db_lock_kept(holder) == holder

\* Leaving the "with db_lock:" block, by falling off its end, by return or
\* by an exception: Lock.__exit__ releases the lock
db_lock_exit(holder) == NoLock

(* ------------------------------ events --------------------------------- *)
\* notify_clients(event_type, data): event_queue.put(message)
notify_clients(q, type, t, status, msg) ==
    Append(q, [type |-> type, task_id |-> t, status |-> status, msg |-> msg])


(* ------------------------------- Init ---------------------------------- *)
FreeWorker == [pc |-> "free", run |-> NoRun, id |-> "", existing |-> FALSE,
               verdict |-> "none", outcome |-> "none"]

\* last: what the timer callback did when it was last invoked for the task
\* keyword: the keyword the run searches with
IdleRun == [pc |-> "idle", total |-> 0, processed |-> 0, ticket_count |-> 0,
            last |-> "none", keyword |-> "none"]

NoCall == [op |-> "none", task |-> 0, registered |-> FALSE, ok |-> FALSE,
           n |-> 0]

\* since: how many messages had been put when the client connected;
\* got: the positions, in put order, of the messages it was sent;
\* beats: the heartbeat frames its generator has yielded
\* beat_at: how many messages had been put when it last yielded one
NoStream == [state |-> "off", since |-> 0, got |-> <<>>, beats |-> 0,
             beat_at |-> 0]

\* A process that has just been launched: Monitor() constructed (120-124),
\* no thread of the pool at work, nobody connected, no note or ticket in
\* the database.
InitProcess ==
    /\ notes = {}
    /\ tickets = {}
    /\ db_lock = NoLock
    /\ session = [w \in Workers |-> {}]
    /\ wk = [w \in Workers |-> FreeWorker]
    /\ runs = [r \in RunIds |-> IdleRun]
    /\ jobs = {}
    /\ task_jobs = {}
    /\ event_queue = <<>>
    /\ taken = 0
    /\ subs = [s \in Subscribers |-> NoStream]
    /\ clock = 0
    /\ api = NoCall

\* A fresh database (db.create_all) and the monitor started by main (1046)
\* with no task to restore.
InitApp ==
    /\ InitProcess
    /\ tasks = [t \in TaskIds |-> NoTask]
    /\ is_running = TRUE

\* A row of workflow_executions as an earlier process left it: the status
\* and is_scheduled pairs are those the handlers write (634-635, 345-352,
\* 359-361, 727-729, 736-738, 927-928).
StoredRow(st, sch) ==
    [status |-> st, is_scheduled |-> sch, run_count |-> 0,
     message |-> "first", created_at |-> 0, last_run_at |-> 0,
     next_run_at |-> ScheduleInterval,
     schedule_interval |-> ScheduleInterval]

StoredRows ==
    {StoredRow(p[1], p[2]) :
        p \in {<<"running", TRUE>>, <<"completed", TRUE>>,
               <<"failed", TRUE>>, <<"stopped", FALSE>>,
               <<"completed", FALSE>>, <<"failed", FALSE>>}}

\* A process launched over the database of an earlier one, before main
\* calls monitor.start(): is_running is False (122), the scheduler and
\* task_jobs are empty (123-124), the feed service has nothing new.
InitStart ==
    /\ InitProcess
    /\ tasks \in [TaskIds -> StoredRows \cup {NoTask}]
    /\ is_running = FALSE
    /\ feed_source = <<>>
    /\ store_faults = 0
    /\ refiner = "answer"
    /\ classifier = "up"

\* ... a feed service that holds up to MaxPosts feeds for the keyword, and
\* a database that executes every statement
Init ==
    /\ InitApp
    /\ feed_source \in FeedLists(MaxPosts)
    /\ store_faults = 0
    /\ refiner = "answer"
    /\ classifier = "up"

\* ... and a database that fails up to MaxFaults of the statements the
\* workers send (an OperationalError such as "database is locked")
InitFaulty ==
    /\ InitApp
    /\ feed_source \in FeedLists(MaxPosts)
    /\ store_faults \in 0..MaxFaults
    /\ refiner = "answer"
    /\ classifier = "up"

\* ... and a feed service that holds three feeds, of which as many get past
\* the rejections of process_single_feed as there are workers to follow
ThreeFeeds ==
    {s \in FeedLists(3) :
        /\ Len(s) = 3
        /\ Len(SelectSeq(s, LAMBDA f : f.modelType = "note" /\ f.id # ""))
               \in 1..MaxPosts}

InitThree ==
    /\ InitApp
    /\ feed_source \in ThreeFeeds
    /\ store_faults = 0
    /\ refiner = "answer"
    /\ classifier = "up"

(* ------------------- the "as_completed" loops -------------------------- *)
\* The mutant of Collect: a loop that drops the results it is handed.
CollectNothing(kind, run, q, t, outcome, id) == [run |-> run, q |-> q]

\* One turn of "for future in as_completed(future_to_feed)" for a call that
\* returned `outcome`: execute_search_task (696-721) counts it, publishes
\* ticket_update for a ticket and a progress task_update on every fifth and
\* on the last result; execute_scheduled_task (334-341) only counts tickets.
Collect(kind, run, q, t, outcome, id) ==
    LET n == run.processed + 1
        k == run.ticket_count + (IF outcome = "ticket" THEN 1 ELSE 0)
        q1 == IF kind = "create" /\ outcome = "ticket"
              THEN notify_clients(q, "ticket_update", t, "ticket", id)
              ELSE q
        q2 == IF kind = "create"
                  /\ (n % ProgressEvery = 0 \/ n = run.total)
              THEN notify_clients(q1, "task_update", t, "running", "progress")
              ELSE q1
    IN [run |-> [run EXCEPT !.processed = n, !.ticket_count = k], q |-> q2]

RECURSIVE CollectAll(_, _, _, _, _)
CollectAll(kind, run, q, t, outcomes) ==
    IF outcomes = <<>> THEN [run |-> run, q |-> q]
    ELSE LET c == Collect(kind, run, q, t, Head(outcomes), "")
         IN CollectAll(kind, c.run, c.q, t, Tail(outcomes))

(* ----------------------- process_single_feed --------------------------- *)
\* Lines 512-519: a feed that is no note, or has no id or no noteCard, is
\* answered at once, before any lock or store access.
Rejects(f) ==
    IF f.modelType # "note" THEN "not_note_type"
    ELSE IF f.id = "" \/ ~f.noteCard THEN "incomplete_data"
    ELSE "none"

\* The call returns `outcome` and its future completes: the loop of the run
\* that submitted it takes the result.
Return(w, outcome) ==
    LET r == wk[w].run
        c == Collect(r[2], runs[r], event_queue, r[1], outcome, wk[w].id)
    IN /\ wk' = [wk EXCEPT ![w].pc = "done", ![w].outcome = outcome]
       /\ runs' = [runs EXCEPT ![r] = c.run]
       /\ event_queue' = c.q

\* Lines 522-525: "with db_lock", app_context and the existence check.
note_lock(w) ==
    /\ wk[w].pc = "start"
    /\ db_lock_free
    /\ db_lock' = w
    /\ wk' = [wk EXCEPT ![w].pc = "note",
                        ![w].existing = NoteExists(session[w], wk[w].id)]
    /\ UNCHANGED <<notes, tickets, tasks, session, runs, jobs, task_jobs,
                   event_queue, clock, feed_source, taken, subs, api,
                   store_faults, is_running, refiner,
                   classifier>>

\* How the database answers the next statement of a worker
StoreAnswers == IF store_faults > 0 THEN {"ok", "raises"} ELSE {"ok"}

\* Lines 526-543: return already_exists, or add and flush the note; either
\* way the app context and then the lock are left.  When the INSERT raises
\* the "with" blocks unwind and the handler (600-610) returns error.
note_section(w) ==
    /\ wk[w].pc = "note"
    /\ IF wk[w].existing
       THEN /\ Return(w, "already_exists")
            /\ session' = [session EXCEPT ![w] = AppContextExit(session[w])]
            /\ UNCHANGED store_faults
       ELSE \E answer \in StoreAnswers :
            IF answer = "raises"
            THEN /\ Return(w, "error")
                 /\ session' =
                        [session EXCEPT ![w] = AppContextExit(session[w])]
                 /\ store_faults' = store_faults - 1
            ELSE /\ wk' = [wk EXCEPT ![w].pc = "analyze"]
                 /\ session' = [session EXCEPT
                        ![w] = AppContextExit(Flush(session[w], wk[w].id))]
                 /\ UNCHANGED <<runs, event_queue, store_faults>>
    /\ db_lock' = db_lock_exit(w)
    /\ UNCHANGED <<notes, tickets, tasks, jobs, task_jobs, clock, api,
                   feed_source, taken, subs, is_running, refiner,
                   classifier>>

\* The state of the classification service: up, or failing every request
\* in one way: an exception (connection error, timeout, a broken stream),
\* a status other than 200, an answer with no JSON object in it, an answer
\* whose braces do not enclose valid JSON
Classifications == {"up", "exception", "status", "no_json", "bad_json"}

\* What a request to the service meets: a service that is up answers that
\* the post is no resale, that it is one, or that it is one with an
\* event_date strptime cannot parse
ClassifierAnswers ==
    IF classifier = "up" THEN {"other", "resale", "resale_bad_date"}
    ELSE {classifier}

\* The verdict process_single_feed reads out of the dict (549, 563-565)
Verdict(ans) ==
    CASE ans = "resale" -> "pos"
      [] ans = "resale_bad_date" -> "posbad"
      [] OTHER -> "neg"

\* The mutant of analyze_ticket_content: the exception is not caught.
analyze_uncaught(ans) ==
    [raised |-> ans = "exception", verdict |-> Verdict(ans)]

\* analyze_ticket_content (367-436): the parsed object; the dict
\* {"is_ticket_resale": False} on a status other than 200 (400-402), when
\* no braces are found (426-428), on a JSONDecodeError (429-431) and on any
\* exception (433-436)
analyze_ticket_content(ans) ==
    [raised |-> FALSE, verdict |-> Verdict(ans)]

\* Lines 546-549: analyze_ticket_content, outside any lock; an exception
\* out of it would end in the handler of 600-610.
analyze(w) ==
    /\ wk[w].pc = "analyze"
    /\ \E ans \in ClassifierAnswers :
           LET a == analyze_ticket_content(ans) IN
           IF a.raised
           THEN Return(w, "error")
           ELSE /\ wk' = [wk EXCEPT ![w].pc = "decided",
                                    ![w].verdict = a.verdict]
                /\ UNCHANGED <<runs, event_queue>>
    /\ UNCHANGED <<notes, tickets, tasks, db_lock, session, jobs,
                   task_jobs, clock, api, feed_source, taken,
                   subs,
                   store_faults, is_running, refiner,
                   classifier>>

\* Lines 551-554 (positive verdict) and 595-596 (negative): the second
\* "with db_lock" and app_context; on the positive branch the ticket query.
second_lock(w) ==
    /\ wk[w].pc = "decided"
    /\ db_lock_free
    /\ db_lock' = w
    /\ wk' = IF wk[w].verdict = "neg"
             THEN [wk EXCEPT ![w].pc = "commit"]
             ELSE [wk EXCEPT ![w].pc = "ticket",
                       ![w].existing = TicketExists(wk[w].id)]
    /\ UNCHANGED <<notes, tickets, tasks, session, runs, jobs, task_jobs,
                   event_queue, clock, feed_source, taken, subs, api,
                   store_faults, is_running, refiner,
                   classifier>>

\* Lines 555-592 and 600-610: return ticket_exists; or strptime raises, the
\* "with" blocks unwind and the handler returns error; or the ticket is
\* added and committed; or the commit raises, the session is removed with
\* the pending ticket, and the handler returns error.
ticket_section(w) ==
    /\ wk[w].pc = "ticket"
    /\ IF wk[w].existing
       THEN /\ Return(w, "ticket_exists")
            /\ UNCHANGED <<notes, tickets, store_faults>>
       ELSE IF wk[w].verdict = "posbad"
       THEN /\ Return(w, "error")
            /\ UNCHANGED <<notes, tickets, store_faults>>
       ELSE \E answer \in StoreAnswers :
            IF answer = "raises"
            THEN /\ Return(w, "error")
                 /\ store_faults' = store_faults - 1
                 /\ UNCHANGED <<notes, tickets>>
            ELSE /\ Return(w, "ticket")
                 /\ notes' = Commit(session[w])
                 /\ tickets' = tickets \cup
                        {[id |-> NextTicketId, note_id |-> wk[w].id,
                          created_at |-> clock]}
                 /\ UNCHANGED store_faults
    /\ session' = [session EXCEPT ![w] = AppContextExit(session[w])]
    /\ db_lock' = db_lock_exit(w)
    /\ UNCHANGED <<tasks, jobs, task_jobs, clock, api, feed_source, taken,
                   subs, is_running, refiner,
                   classifier>>

\* Lines 593-598: db.session.commit() in a new app context, then success.
commit_section(w) ==
    /\ wk[w].pc = "commit"
    /\ notes' = Commit(session[w])
    /\ session' = [session EXCEPT ![w] = AppContextExit(session[w])]
    /\ Return(w, "no_ticket")
    /\ db_lock' = db_lock_exit(w)
    /\ UNCHANGED <<tickets, tasks, jobs, task_jobs, clock, api, feed_source,
                   taken, subs, store_faults, is_running, refiner,
                   classifier>>

process_single_feed(w) ==
    \/ note_lock(w)
    \/ note_section(w)
    \/ analyze(w)
    \/ second_lock(w)
    \/ ticket_section(w)
    \/ commit_section(w)

(* ------------------------------ Monitor -------------------------------- *)
\* job_id = f"task_{task_id}": a str
JobId(t) == <<"str", t>>

\* self.task_jobs[task_id] = job_id: the key is the task id itself, an int
TaskKey(t) == <<"int", t>>

\* "if job_id in self.task_jobs": membership among the keys of the dict
HasJob(t) == JobId(t) \in task_jobs

\* args=[task_id, keyword]: the keyword execute_search_task was given, or
\* the msg column Monitor.start reads back, which holds the keyword with
\* its refinement appended
Keywords == {"keyword", "msg"}

\* A job as the scheduler holds it: its id, whether it is armed or paused,
\* the keyword it passes to the callback, and the seconds of its interval
\* trigger
Job(t, state, kw, iv) ==
    [id |-> JobId(t), state |-> state, keyword |-> kw, interval |-> iv]

\* The jobs a store holds under the job id of task t
JobsOf(js, t) == {j \in js : j.id = JobId(t)}

\* scheduler.get_job(job_id), reduced to the job's state
job_state(js, t) ==
    IF JobsOf(js, t) = {} THEN "none"
    ELSE (CHOOSE j \in JobsOf(js, t) : TRUE).state

\* The mutant of add_job: the new job is stored beside the one with its id.
add_job_beside(js, t, kw, iv) == js \cup {Job(t, "armed", kw, iv)}

\* scheduler.add_job(..., 'interval', seconds=interval_seconds, id=job_id,
\* args=[task_id, keyword], replace_existing=True) (172-180): the new job
\* takes the place of a job with the same id
add_job(js, t, kw, iv) ==
    (js \ JobsOf(js, t)) \cup {Job(t, "armed", kw, iv)}

\* scheduler.pause_job(job_id) / scheduler.resume_job(job_id)
pause_job(t) ==
    {IF j.id = JobId(t) THEN [j EXCEPT !.state = "paused"] ELSE j : j \in jobs}

resume_job(t) ==
    {IF j.id = JobId(t) THEN [j EXCEPT !.state = "armed"] ELSE j : j \in jobs}

\* scheduler.remove_job(job_id)
remove_job(js, t) == js \ JobsOf(js, t)

\* Monitor.add_task_schedule (161-191) on the job store js and the keys of
\* task_jobs: remove_job when the map knows the job id, add_job, and the
\* map entry under the task id itself (182)
add_task_schedule(js, keys, t, kw, iv) ==
    [jobs |-> add_job(IF JobId(t) \in keys THEN remove_job(js, t) ELSE js,
                      t, kw, iv),
     task_jobs |-> keys \cup {TaskKey(t)}]

\* The mutant of ActiveTasks: every stored task is restored.
EveryStoredTask == {t \in TaskIds : TaskExists(t)}

\* WorkflowExecution.query.filter_by(is_scheduled=True, status='running')
\* (130-133)
ActiveTasks ==
    {t \in TaskIds : tasks[t].is_scheduled /\ tasks[t].status = "running"}

\* "for task in active_tasks: self.add_task_schedule(task.id, task.msg,
\* task.schedule_interval)" (134-135) on the registry reg
RECURSIVE restore(_, _)
restore(reg, ts) ==
    IF ts = {} THEN reg
    ELSE LET t == CHOOSE x \in ts : \A y \in ts : x <= y IN
         restore(add_task_schedule(reg.jobs, reg.task_jobs, t, "msg",
                                   tasks[t].schedule_interval),
                 ts \ {t})

\* The registry Monitor.start leaves (129-135): the timers of the tasks ts
\* are installed when the monitor was not running, nothing is touched when
\* it was
started(running, reg, ts) == IF ~running THEN restore(reg, ts) ELSE reg

\* Monitor.start (127-141): when the monitor is not running it is marked
\* running, the scheduler is started and the active tasks get their
\* timers, each with next_run_at set from now (185-189); when it is
\* running the call does nothing.
monitor_start ==
    IF ~is_running
    THEN LET reg == started(is_running,
                            [jobs |-> jobs, task_jobs |-> task_jobs],
                            ActiveTasks) IN
         /\ is_running' = TRUE
         /\ jobs' = reg.jobs
         /\ task_jobs' = reg.task_jobs
         /\ tasks' = [t \in TaskIds |->
                IF t \in ActiveTasks
                THEN [tasks[t] EXCEPT !.next_run_at =
                          clock + tasks[t].schedule_interval]
                ELSE tasks[t]]
         /\ UNCHANGED <<notes, tickets, db_lock, session, wk, runs,
                        event_queue, taken, subs, store_faults, clock,
                        feed_source, api, refiner,
                   classifier>>
    ELSE UNCHANGED vars

(* ----------------------- optimize_search_keyword ----------------------- *)
\* What the request of optimize_search_keyword (473-478) meets: an answer
\* with a keyword in it, an exception (connection error, timeout, a body
\* that is not the expected JSON), a status other than 200, or an answer
\* whose content is empty
Refinements == {"answer", "exception", "status", "empty"}

\* The mutant of optimize_search_keyword: the exception is not caught.
optimize_uncaught(svc, kw) ==
    [raised |-> svc = "exception",
     keyword |-> IF svc = "answer" THEN "refined" ELSE kw]

\* optimize_search_keyword (439-496): the stripped content of the answer;
\* the original keyword on a status other than 200 (480-482), on an empty
\* content (487-489) and on any exception (494-496)
optimize_search_keyword(svc, kw) ==
    [raised |-> FALSE,
     keyword |-> IF svc = "answer" THEN "refined" ELSE kw]

\* args=[task_id, keyword] of the job the scheduler fires for task t
job_keyword(js, t) ==
    IF JobsOf(js, t) = {} THEN "none"
    ELSE (CHOOSE j \in JobsOf(js, t) : TRUE).keyword

(* ------------------------- execute_search_task ------------------------- *)
Used == Cardinality({w \in Workers : wk[w].pc # "free"})

Accepted(feeds) == SelectSeq(feeds, LAMBDA f : Rejects(f) = "none")

RejectedOutcomes(feeds) ==
    LET rej == SelectSeq(feeds, LAMBDA f : Rejects(f) # "none")
    IN [i \in 1..Len(rej) |-> Rejects(rej[i])]

\* search_feeds returned these feeds and every one of them fits in the pool
CanSubmit(feeds) ==
    /\ Len(feeds) <= PoolWidth
    /\ Used + Len(Accepted(feeds)) <= MaxPosts

\* executor.submit(process_single_feed, feed, id) for feed in feeds
Submit(r, feeds) ==
    LET acc == Accepted(feeds) IN
    [w \in Workers |->
        IF w \in (Used + 1)..(Used + Len(acc))
        THEN [FreeWorker EXCEPT !.pc = "start", !.run = r,
                                !.id = acc[w - Used].id]
        ELSE wk[w]]

\* The run once its feeds are in the pool and the calls that return before
\* touching the store have been taken by the loop.
Pooled(r, run, q, feeds) ==
    CollectAll(r[2], [run EXCEPT !.pc = "pool", !.total = Len(feeds)], q,
               r[1], RejectedOutcomes(feeds))

\* The id SQLite gives the next workflow_executions row
NewTaskId ==
    1 + (CHOOSE m \in {0} \cup {t \in TaskIds : TaskExists(t)} :
            \A t \in TaskIds : TaskExists(t) => t <= m)

\* Lines 618-648: the keyword is refined, the task row is committed with
\* status running and is_scheduled, the timer is installed with the
\* original keyword, the start event is published.  Lines 733-742 with
\* workflow_execution still None: an exception raised before the row is
\* added is logged and execute_search_task returns False with no row, no
\* timer and no event.
CreateTask ==
    LET t == NewTaskId
        r == <<NewTaskId, "create">>
        opt == optimize_search_keyword(refiner, "keyword")
        reg == add_task_schedule(jobs, task_jobs, t, "keyword",
                                 ScheduleInterval)
    IN
    /\ t \in TaskIds
    /\ runs[r].pc = "idle"
    /\ IF opt.raised
       THEN /\ runs' = [runs EXCEPT ![r].pc = "done"]
            /\ UNCHANGED <<tasks, jobs, task_jobs, event_queue, clock>>
       ELSE /\ clock' = clock + 1
            /\ tasks' = [tasks EXCEPT ![t] =
                   [status |-> "running", is_scheduled |-> TRUE,
                    run_count |-> 0, message |-> "first",
                    created_at |-> clock', last_run_at |-> 0,
                    next_run_at |-> clock' + ScheduleInterval,
                    schedule_interval |-> ScheduleInterval]]
            /\ jobs' = reg.jobs
            /\ task_jobs' = reg.task_jobs
            /\ event_queue' = notify_clients(event_queue, "task_update", t,
                                             "running", "start")
            /\ runs' = [runs EXCEPT ![r].pc = "search",
                                    ![r].keyword = opt.keyword]
    /\ UNCHANGED <<notes, tickets, db_lock, session, wk, api, feed_source, taken,
                   subs,
                   store_faults, is_running, refiner,
                   classifier>>

\* notify_clients after "row.<column> = v; db.session.commit()": when the
\* row was deleted meanwhile the UPDATE matches nothing, commit raises
\* StaleDataError, the commit in the handler raises again, and the call
\* ends without reaching notify_clients.
notify_committed(q, t, status, msg) ==
    IF TaskExists(t) THEN notify_clients(q, "task_update", t, status, msg)
    ELSE q

\* workflow_execution.<column> = v; db.session.commit(): an UPDATE of the
\* row, when it is still there
SetStatus(t, st) ==
    IF TaskExists(t) THEN [tasks EXCEPT ![t].status = st] ELSE tasks

\* The mutant of SetMessage: the message column is never written.
MessageNotWritten(t, m) == tasks

SetMessage(t, m) ==
    IF TaskExists(t) THEN [tasks EXCEPT ![t].message = m] ELSE tasks

\* What the MCP service answers to the tools/call request, or how the
\* request fails (mcp_client.py 115-169 and 172-210)
Responses ==
    {"no_session", "http_error", "rpc_error", "bad_body", "no_result",
     "no_content", "bad_text", "bad_shape", "feeds"}

\* XiaohongshuMCPClient.search_feeds (mcp_client.py 94-210) when the service
\* holds the feeds `held`: a missing session, an HTTP failure and a JSON-RPC
\* error are raised; a body or a content text that is not JSON ends in
\* "except json.JSONDecodeError: return []"; a reply without result, without
\* content or of another shape returns []; otherwise the feeds.
search_feeds(resp, held) ==
    IF resp \in {"no_session", "http_error", "rpc_error"}
    THEN [raised |-> TRUE, feeds |-> <<>>]
    ELSE IF resp = "feeds"
    THEN [raised |-> FALSE, feeds |-> held]
    ELSE [raised |-> FALSE, feeds |-> <<>>]

\* Lines 654-693: search_feeds raises, returns nothing, or returns feeds
\* that are all submitted to the pool.
search_create(t) ==
    LET r == <<t, "create">> IN
    /\ runs[r].pc = "search"
    /\ \E resp \in Responses :
           LET res == search_feeds(resp, feed_source)
               p == Pooled(r, runs[r], event_queue, res.feeds)
           IN
           IF res.raised
           THEN /\ tasks' = SetStatus(t, "failed")
                /\ event_queue' = notify_committed(event_queue, t,
                                                    "failed", "mcp_error")
                /\ runs' = [runs EXCEPT ![r].pc = "done"]
                /\ UNCHANGED wk
           ELSE IF res.feeds = <<>>
           THEN /\ tasks' = SetStatus(t, "completed")
                /\ event_queue' = notify_committed(event_queue, t,
                                                    "completed", "empty")
                /\ runs' = [runs EXCEPT ![r].pc = "done"]
                /\ UNCHANGED wk
           ELSE /\ CanSubmit(res.feeds)
                /\ wk' = Submit(r, res.feeds)
                /\ runs' = [runs EXCEPT ![r] = p.run]
                /\ event_queue' = p.q
                /\ UNCHANGED tasks
    /\ UNCHANGED <<notes, tickets, db_lock, session, jobs, task_jobs, clock,
                   api, feed_source, taken,
                   subs,
                   store_faults, is_running, refiner,
                   classifier>>

\* The mutant of AllReturned: an executor that is left without joining.
NoneAwaited(r) == TRUE

\* The executor's "with" block ends when every submitted call has returned
AllReturned(r) == \A w \in Workers : wk[w].run = r => wk[w].pc = "done"

\* Lines 723-732: the executor has joined its workers; the task is marked
\* completed and the summary is published.
finish_create(t) ==
    LET r == <<t, "create">> IN
    /\ runs[r].pc = "pool"
    /\ AllReturned(r)
    /\ tasks' = SetStatus(t, "completed")
    /\ event_queue' = notify_committed(event_queue, t,
                                        "completed", "summary")
    /\ runs' = [runs EXCEPT ![r].pc = "done"]
    /\ UNCHANGED <<notes, tickets, db_lock, session, wk, jobs, task_jobs,
                   clock, api, feed_source, taken,
                   subs,
                   store_faults, is_running, refiner,
                   classifier>>

(* ------------------------ execute_scheduled_task ----------------------- *)
\* A mutant of SkipsRun: the gate without its first test (273-275).
SkipsRunWhenPaused(status) == status = "paused"

\* The mutant of SkipsRun: a gate that lets a completed task run again.
SkipsRunUnlessActive(status) == status \notin {"running", "completed"}

\* Lines 273-279: "if task.status not in ['running', 'paused']: return" and
\* "if task.status == 'paused': return"
SkipsRun(status) ==
    \/ status \notin {"running", "paused"}
    \/ status = "paused"

\* The mutant of next_run_count: a counter that is written back unchanged.
run_count_kept(run_count) == run_count

\* Line 283: task.run_count = (task.run_count or 0) + 1
next_run_count(run_count) == run_count + 1

\* The scheduler calls execute_scheduled_task for an armed job whose last
\* instance has returned (max_instances is 1).  Lines 261-311: the task is
\* read; without a row, or with a status the gate rejects, the callback
\* returns; otherwise the run counter and the timestamps are committed, the
\* job's keyword is refined (303) and two task_update events are published
\* (an exception out of the refinement would end in the handler of 356-365).  datetime.utcnow() is read twice,
\* for last_run_at (282) and again for next_run_at (284): the second reading
\* is the first or a later instant.  `cap` bounds the runs of one task.
TimerFireWithin(t, cap) ==
    LET r == <<t, "timer">>
        opt == optimize_search_keyword(refiner, job_keyword(jobs, t))
    IN
    /\ is_running
    /\ job_state(jobs, t) = "armed"
    /\ runs[r].pc = "idle"
    /\ IF ~TaskExists(t) \/ SkipsRun(tasks[t].status)
       THEN /\ runs' = [runs EXCEPT ![r].last = "skipped"]
            /\ UNCHANGED <<tasks, event_queue, clock, feed_source, taken,
                   subs>>
       ELSE /\ tasks[t].run_count < cap
            /\ \E later \in 0..MaxDrift :
                   /\ clock' = clock + 1 + later
                   /\ tasks' = [tasks EXCEPT
                          ![t].last_run_at = clock + 1,
                          ![t].run_count = next_run_count(@),
                          ![t].next_run_at =
                              clock' + tasks[t].schedule_interval,
                          ![t].message =
                              IF opt.raised THEN "failed" ELSE "nth"]
            /\ event_queue' =
                   notify_clients(
                       notify_clients(event_queue, "task_update", t,
                                      "running", "nth"),
                       "task_update", t, "running",
                       IF opt.raised THEN "failed" ELSE "searching")
            /\ runs' = [runs EXCEPT
                   ![r] = [IdleRun EXCEPT
                              !.pc = IF opt.raised THEN "idle" ELSE "search",
                              !.last = "ran",
                              !.keyword = IF opt.raised THEN "none"
                                          ELSE opt.keyword]]
    /\ UNCHANGED <<notes, tickets, db_lock, session, wk, jobs, task_jobs,
                   api, feed_source, taken,
                   subs,
                   store_faults, is_running, refiner,
                   classifier>>

TimerFire(t) == TimerFireWithin(t, MaxRuns)

\* Lines 313-332 and 356-365: search_feeds raises and the handler records
\* the failure in the message, or the feeds (none included) go to the pool.
search_timer(t) ==
    LET r == <<t, "timer">> IN
    /\ runs[r].pc = "search"
    /\ \E resp \in Responses :
           LET res == search_feeds(resp, feed_source)
               q == notify_clients(event_queue, "task_update", t,
                                   "running", "found")
               p == Pooled(r, runs[r], q, res.feeds)
           IN
           IF res.raised
           THEN /\ tasks' = SetMessage(t, "failed")
                /\ event_queue' = notify_committed(event_queue, t,
                                                    "running", "failed")
                /\ runs' = [runs EXCEPT ![r].pc = "idle"]
                /\ UNCHANGED wk
           ELSE /\ CanSubmit(res.feeds)
                /\ wk' = Submit(r, res.feeds)
                /\ runs' = [runs EXCEPT ![r] = p.run]
                /\ event_queue' = p.q
                /\ UNCHANGED tasks
    /\ UNCHANGED <<notes, tickets, db_lock, session, jobs, task_jobs, clock,
                   api, feed_source, taken,
                   subs,
                   store_faults, is_running, refiner,
                   classifier>>

\* Lines 343-354: the message is updated and published; the status column
\* is not written.
finish_timer(t) ==
    LET r == <<t, "timer">> IN
    /\ runs[r].pc = "pool"
    /\ AllReturned(r)
    /\ tasks' = SetMessage(t, "nth_done")
    /\ event_queue' = notify_committed(event_queue, t,
                                        "running", "nth_done")
    /\ runs' = [runs EXCEPT ![r].pc = "idle"]
    /\ UNCHANGED <<notes, tickets, db_lock, session, wk, jobs, task_jobs,
                   clock, api, feed_source, taken,
                   subs,
                   store_faults, is_running, refiner,
                   classifier>>

(* --------------------------- admin requests ---------------------------- *)
Call(op, t, ok) ==
    [op |-> op, task |-> t, registered |-> job_state(jobs, t) # "none", ok |-> ok,
     n |-> api.n + 1]

\* Monitor.pause_task_schedule (193-212) under pause_task (940-954):
\* scheduler.pause_job raises JobLookupError for a job it does not hold.
pause_task(t) ==
    LET ok == HasJob(t) /\ job_state(jobs, t) # "none" IN
    /\ api.n < MaxCalls
    /\ api' = Call("pause", t, ok)
    /\ IF ok
       THEN /\ jobs' = pause_job(t)
            /\ tasks' = SetStatus(t, "paused")
            /\ event_queue' = notify_clients(event_queue, "task_update", t,
                                             "paused", "paused")
       ELSE UNCHANGED <<jobs, tasks, event_queue, feed_source, taken,
                   subs>>
    /\ UNCHANGED <<notes, tickets, db_lock, session, wk, runs, task_jobs,
                   clock, feed_source, taken,
                   subs,
                   store_faults, is_running, refiner,
                   classifier>>

\* Monitor.resume_task_schedule (214-233) under resume_task (956-970).
resume_task(t) ==
    LET ok == HasJob(t) /\ job_state(jobs, t) # "none" IN
    /\ api.n < MaxCalls
    /\ api' = Call("resume", t, ok)
    /\ IF ok
       THEN /\ jobs' = resume_job(t)
            /\ tasks' = SetStatus(t, "running")
            /\ event_queue' = notify_clients(event_queue, "task_update", t,
                                             "running", "resumed")
       ELSE UNCHANGED <<jobs, tasks, event_queue, feed_source, taken,
                   subs>>
    /\ UNCHANGED <<notes, tickets, db_lock, session, wk, runs, task_jobs,
                   clock, feed_source, taken,
                   subs,
                   store_faults, is_running, refiner,
                   classifier>>

\* The mutant of remove_task_schedule: no lookup before the removal.
remove_unchecked(t) ==
    [ok |-> TRUE,
     jobs |-> remove_job(jobs, t),
     task_jobs |-> task_jobs \ {TaskKey(t)}]

\* Monitor.remove_task_schedule (235-256): the value it returns, and what it
\* does to the scheduler and to the map when it finds the job.
remove_task_schedule(t) ==
    LET ok == HasJob(t) /\ job_state(jobs, t) # "none" IN
    [ok |-> ok,
     jobs |-> IF ok THEN remove_job(jobs, t) ELSE jobs,
     task_jobs |-> IF ok THEN task_jobs \ {TaskKey(t)} ELSE task_jobs]

\* stop_task (916-938): for an existing row, remove_task_schedule and then
\* status stopped, is_scheduled False, the message and the event; the
\* value remove_task_schedule returned is dropped.
stop_task(t) ==
    LET rm == remove_task_schedule(t) IN
    /\ api.n < MaxCalls
    /\ IF TaskExists(t)
       THEN /\ api' = Call("cancel", t, rm.ok)
            /\ jobs' = rm.jobs
            /\ task_jobs' = rm.task_jobs
            /\ tasks' = [tasks EXCEPT ![t].status = "stopped",
                                      ![t].is_scheduled = FALSE,
                                      ![t].message = "stopped"]
            /\ event_queue' = notify_clients(event_queue, "task_update", t,
                                             "stopped", "stopped")
       ELSE /\ api' = Call("stop404", t, FALSE)
            /\ UNCHANGED <<jobs, task_jobs, tasks, event_queue, feed_source, taken,
                   subs>>
    /\ UNCHANGED <<notes, tickets, db_lock, session, wk, runs, clock, feed_source, taken,
                   subs,
                   store_faults, is_running, refiner,
                   classifier>>

(* ------------------------- save_note, delete_task ---------------------- *)
\* database.save_note (66-79): the row is updated when it exists, otherwise
\* inserted; either way committed.
save_note(n) ==
    /\ notes' = IF NoteExists({}, n) THEN notes
                ELSE notes \cup {[note_id |-> n, created_at |-> clock]}
    /\ UNCHANGED <<tickets, tasks, db_lock, session, wk, runs, jobs,
                   task_jobs, event_queue, taken, subs, clock, feed_source,
                   api,
                   store_faults, is_running, refiner,
                   classifier>>

\* Ticket.query.join(Note).filter(Ticket.created_at >= task_created_at):
\* the inner join keeps the tickets whose note_id has a row in notes
JoinedTickets(created) ==
    {k \in tickets : /\ k.created_at >= created
                     /\ \E x \in notes : x.note_id = k.note_id}

\* delete_task (972-1017): remove_task_schedule; for an existing row the
\* joined tickets, the notes they point to and the row itself are deleted
\* in one commit and the event is published; otherwise 404.
delete_task(t) ==
    LET rm == remove_task_schedule(t)
        gone == JoinedTickets(tasks[t].created_at)
        note_ids == {k.note_id : k \in gone}
    IN
    /\ api.n < MaxCalls
    /\ jobs' = rm.jobs
    /\ task_jobs' = rm.task_jobs
    /\ IF TaskExists(t)
       THEN /\ api' = Call("delete", t, TRUE)
            /\ tickets' = tickets \ gone
            /\ notes' = {x \in notes : x.note_id \notin note_ids}
            /\ tasks' = [tasks EXCEPT ![t] = NoTask]
            /\ event_queue' = notify_clients(event_queue, "task_update", t,
                                             "none", "deleted")
       ELSE /\ api' = Call("delete404", t, FALSE)
            /\ UNCHANGED <<tickets, notes, tasks, event_queue>>
    /\ UNCHANGED <<db_lock, session, wk, runs, taken, subs, clock,
                   feed_source,
                   store_faults, is_running, refiner,
                   classifier>>

(* ------------------------------ /stream -------------------------------- *)
\* stream (848-879): a client connects and Flask starts iterating its
\* event_stream generator.
stream(s) ==
    /\ subs[s].state = "off"
    /\ subs' = [subs EXCEPT ![s].state = "on",
                            ![s].since = Len(event_queue)]
    /\ UNCHANGED <<notes, tickets, tasks, db_lock, session, wk, runs, jobs,
                   task_jobs, event_queue, taken, clock, feed_source, api,
                   store_faults, is_running, refiner,
                   classifier>>

\* The generator of client s is inside its loop: the client is connected,
\* or it has gone away and the generator, blocked in event_queue.get, has
\* not been closed yet.  GeneratorExit (865) is raised at a yield, when the
\* server closes the generator after a write to the socket failed.
Iterating(s) == subs[s].state \in {"on", "left"}

\* What a write to the socket of a client that went away does to the
\* generator: the kernel still accepts the frame and the loop goes on, or
\* the write fails and the generator is closed
AfterWrite(state) == IF state = "on" THEN {"on"} ELSE {"left", "gone"}

\* The mutant of yield_message: the newest frame overtakes the earlier ones.
yield_ahead(got, i) == <<i>> \o got

\* yield f"data: {json.dumps(message)}\n\n" (857-858): the frame follows
\* the frames already sent on this response
yield_message(got, i) == Append(got, i)

\* One turn of the loop of event_stream (853-858) in which the Queue is not
\* empty: event_queue.get removes the oldest message and the generator
\* yields it; it reaches the client when the client is still connected.
event_stream(s) ==
    /\ Iterating(s)
    /\ taken < Len(event_queue)
    /\ taken' = taken + 1
    /\ \E st \in AfterWrite(subs[s].state) :
           subs' = [subs EXCEPT
               ![s].state = st,
               ![s].got = IF subs[s].state = "on"
                          THEN yield_message(@, taken + 1) ELSE @]
    /\ UNCHANGED <<notes, tickets, tasks, db_lock, session, wk, runs, jobs,
                   task_jobs, event_queue, clock, feed_source, api,
                   store_faults, is_running, refiner,
                   classifier>>

\* One turn of the loop in which get(timeout=30) raises Empty (859-862):
\* the generator yields ": heartbeat" and goes back to get.
heartbeat(s) ==
    /\ Iterating(s)
    /\ taken = Len(event_queue)
    /\ subs[s].beats < MaxBeats
    /\ \E st \in AfterWrite(subs[s].state) :
           subs' = [subs EXCEPT ![s].state = st, ![s].beats = @ + 1,
                                ![s].beat_at = Len(event_queue)]
    /\ UNCHANGED <<notes, tickets, tasks, db_lock, session, wk, runs, jobs,
                   task_jobs, event_queue, taken, clock, feed_source, api,
                   store_faults, is_running, refiner,
                   classifier>>

\* The client goes away.  Nothing tells the generator: it stays in get until
\* a message or the timeout lets it yield again.
disconnect(s) ==
    /\ subs[s].state = "on"
    /\ subs' = [subs EXCEPT ![s].state = "left"]
    /\ UNCHANGED <<notes, tickets, tasks, db_lock, session, wk, runs, jobs,
                   task_jobs, event_queue, taken, clock, feed_source, api,
                   store_faults, is_running, refiner,
                   classifier>>

(* ------------------------------- Next ---------------------------------- *)
Next ==
    \/ NewTaskId \in SchedIds /\ CreateTask
    \/ \E t \in SchedIds : search_create(t)
    \/ \E w \in Workers : process_single_feed(w)
    \/ \E t \in SchedIds : finish_create(t)
    \/ \E t \in SchedIds : TimerFire(t)
    \/ \E t \in SchedIds : search_timer(t)
    \/ \E t \in SchedIds : finish_timer(t)
    \/ \E t \in SchedIds : pause_task(t)
    \/ \E t \in SchedIds : resume_task(t)
    \/ \E t \in SchedIds : stop_task(t)

Spec == Init /\ [][Next]_vars

\* The creation-triggered runs and their workers alone: no timer fires and
\* no admin request arrives while they are in progress.
NextPool ==
    \/ NewTaskId \in SchedIds /\ CreateTask
    \/ \E t \in SchedIds : search_create(t)
    \/ \E w \in Workers : process_single_feed(w)
    \/ \E t \in SchedIds : finish_create(t)

SpecPool == Init /\ [][NextPool]_vars

\* The first run and the timer runs of a task over three fetched feeds, no
\* admin request arriving.
NextThree ==
    \/ NewTaskId \in SchedIds /\ CreateTask
    \/ \E t \in SchedIds : search_create(t)
    \/ \E w \in Workers : process_single_feed(w)
    \/ \E t \in SchedIds : finish_create(t)
    \/ \E t \in SchedIds : TimerFire(t)
    \/ \E t \in SchedIds : search_timer(t)
    \/ \E t \in SchedIds : finish_timer(t)

SpecThree == InitThree /\ [][NextThree]_vars

\* The same runs over a database that can fail a worker's statement; the
\* pool's threads and the loop that takes their results keep running.
SpecFaulty == InitFaulty /\ [][NextPool]_vars /\ WF_vars(NextPool)

\* The event queue and its readers: the producers that need no worker
\* (task creation, the outcome of a first search that finds no feed, stop)
\* and the clients of /stream.
InitBus == Init /\ feed_source = <<>>

NextBus ==
    \/ NewTaskId \in SchedIds /\ CreateTask
    \/ \E t \in SchedIds : search_create(t)
    \/ \E t \in SchedIds : stop_task(t)
    \/ \E s \in Subscribers : stream(s)
    \/ \E s \in Subscribers : event_stream(s)
    \/ \E s \in Subscribers : heartbeat(s)
    \/ \E s \in Subscribers : disconnect(s)

SpecBus == InitBus /\ [][NextBus]_vars

\* The store under deletion: tasks, the tickets the workers of their first
\* runs insert (the runs are followed as far as their pool), notes written
\* through database.save_note, and delete_task.
NextStore ==
    \/ CreateTask
    \/ \E t \in TaskIds : search_create(t)
    \/ \E w \in Workers : process_single_feed(w)
    \/ \E n \in NoteIds : save_note(n)
    \/ \E t \in TaskIds : delete_task(t)

SpecStore == Init /\ [][NextStore]_vars

\* The timer callback over several fires of one task: its searches, its
\* workers, and stop_task arriving at any point.  The first run of the task
\* stays in its search meanwhile.
NextTimer ==
    \/ NewTaskId \in SchedIds /\ CreateTask
    \/ \E t \in SchedIds : TimerFireWithin(t, MaxFires)
    \/ \E t \in SchedIds : search_timer(t)
    \/ \E w \in Workers : process_single_feed(w)
    \/ \E t \in SchedIds : finish_timer(t)
    \/ \E t \in SchedIds : stop_task(t)

SpecTimer == Init /\ [][NextTimer]_vars

\* A process launched by main (1035-1056) over stored tasks: monitor.start()
\* runs before app.run serves the first request and before the scheduler
\* fires a job; then tasks are created, stopped and deleted, and the timers
\* fire (a run the timer starts stays in its search).
NextStart ==
    \/ monitor_start
    \/ is_running /\ CreateTask
    \/ is_running /\ \E t \in TaskIds : TimerFire(t)
    \/ is_running /\ \E t \in TaskIds : stop_task(t)
    \/ is_running /\ \E t \in TaskIds : delete_task(t)

SpecStart == InitStart /\ [][NextStart]_vars

\* The first run and the timer runs of a task while the language model
\* answers refinement requests in one of the four ways.
InitRefine ==
    /\ InitApp
    /\ feed_source \in FeedLists(MaxPosts)
    /\ store_faults = 0
    /\ refiner \in Refinements
    /\ classifier = "up"

SpecRefine == InitRefine /\ [][NextThree]_vars

\* The first runs and their workers while the classification service is up
\* or fails in one of its ways.
InitClassify ==
    /\ InitApp
    /\ feed_source \in FeedLists(MaxPosts)
    /\ store_faults = 0
    /\ refiner = "answer"
    /\ classifier \in Classifications

SpecClassify == InitClassify /\ [][NextPool]_vars

(* ===================== process_single_feed: the store ================== *)
\* The calls that carry identity n and got past the rejections of 512-519
CallsOf(n) == {w \in Workers : wk[w].pc # "free" /\ wk[w].id = n}

AllCallsReturned(n) ==
    /\ CallsOf(n) # {}
    /\ \A w \in CallsOf(n) : wk[w].pc = "done"

NotesOf(n) == {x \in notes : x.note_id = n}

TicketsOf(n) == {k \in tickets : k.note_id = n}

\* C1: once every process_single_feed call that carries one post identity
\* has returned, the notes table holds exactly one row with that identity.
C1_OneNotePerIdentity ==
    \A n \in NoteIds : AllCallsReturned(n) => Cardinality(NotesOf(n)) = 1

\* The calls with identity n whose classification was positive
PositiveCalls(n) == {w \in CallsOf(n) : wk[w].verdict \in {"pos", "posbad"}}

\* ... and whose event_date, when there is one, is a date strptime accepts
StorableCalls(n) == {w \in CallsOf(n) : wk[w].verdict = "pos"}

AtMostOneTicket == \A n \in NoteIds : Cardinality(TicketsOf(n)) <= 1

\* A call returns success with a ticket only when it inserted the row, and a
\* call that found the ticket present returns ticket_exists.
LosersInsertNothing ==
    \A n \in NoteIds :
        /\ Cardinality({w \in CallsOf(n) : wk[w].outcome = "ticket"})
               = Cardinality(TicketsOf(n))
        /\ \A w \in PositiveCalls(n) :
               wk[w].pc = "done" =>
                   wk[w].outcome \in {"ticket", "ticket_exists", "error"}

Classified(n) == {w \in CallsOf(n) : wk[w].verdict # "none"}

\* C3: over all runs, creation-triggered and timer-triggered, the classifier
\* is called at most once for one post identity.
C3_ClassifiedOnce == \A n \in NoteIds : Cardinality(Classified(n)) <= 1

\* C4: a call that returned success with is_ticket False has left a
\* committed notes row with its identity.
C4_NegativeCommitsNote ==
    \A w \in Workers : wk[w].outcome = "no_ticket" => NotesOf(wk[w].id) # {}

(* =========================== db_lock: exclusion ======================== *)
\* The worker is between the existence check and the end of the "with
\* db_lock" block of the note (522-543) or of the ticket (551-574).
InCheckThenInsert(w) == wk[w].pc \in {"note", "ticket"}

\* What the existence check of the section the worker is in would answer now
CheckNow(w) ==
    IF wk[w].pc = "note" THEN NoteExists(session[w], wk[w].id)
    ELSE TicketExists(wk[w].id)

\* C5: at most one worker, over all runs and tasks, is inside a note or
\* ticket check-then-insert section, it is the holder of db_lock, and the
\* answer its check got is still the answer when it inserts: no other
\* worker checked or inserted in between.
C5_OneWorkerInSection ==
    \A w \in Workers :
        InCheckThenInsert(w) =>
            /\ db_lock = w
            /\ \A v \in Workers \ {w} : ~InCheckThenInsert(v)
            /\ wk[w].existing = CheckNow(w)

\* One worker is inside the ticket section while another, with the same
\* identity and a positive verdict too, waits for the lock.
C5_Witness ==
    \E w, v \in Workers :
        /\ w # v
        /\ wk[w].pc = "ticket"
        /\ wk[v].pc = "decided"
        /\ wk[v].verdict = "pos"
        /\ wk[v].id = wk[w].id

(* ======================== pause, resume, stop ========================== *)
\* add_task_schedule has put a job for the task into the scheduler
Registered(t) == job_state(jobs, t) # "none"

\* C6: pause_task on a task whose timer add_task_schedule registered
\* returns true, sets the status to paused and leaves the job in the
\* scheduler, suspended.
C6_PauseSuspends ==
    [][\A t \in TaskIds :
           pause_task(t) /\ Registered(t) =>
               /\ api'.ok
               /\ tasks'[t].status = "paused"
               /\ job_state(jobs', t) = "paused"]_vars

\* C7: resume_task as the admin request that follows pause_task on the same
\* task with a registered timer: both return true, the status is running
\* again and the job is armed with the interval it was created with.
C7_PauseResumeRestores ==
    [][\A t \in TaskIds :
           (/\ resume_task(t)
            /\ api.op = "pause"
            /\ api.task = t
            /\ api.registered) =>
               /\ api.ok
               /\ api'.ok
               /\ tasks'[t].status = "running"
               /\ job_state(jobs', t) = "armed"
               /\ tasks'[t].schedule_interval = ScheduleInterval]_vars

\* C8: stop_task on a task with a registered timer: remove_task_schedule
\* returned true, the job is neither in the scheduler nor among the keys of
\* task_jobs, so the callback cannot be invoked again, and the row is
\* stopped with is_scheduled False.
C8_CancelRemovesTimer ==
    [][\A t \in TaskIds :
           stop_task(t) /\ TaskExists(t) /\ Registered(t) =>
               /\ api'.ok
               /\ job_state(jobs', t) = "none"
               /\ TaskKey(t) \notin task_jobs'
               /\ ~(ENABLED TimerFire(t))'
               /\ tasks'[t].status = "stopped"
               /\ ~tasks'[t].is_scheduled]_vars

(* ============================ the timer gate =========================== *)
\* C9: when the run execute_search_task started for a new task finishes
\* normally while is_scheduled is still set, the task stays running, so the
\* next timer fire passes the gate and runs again.
C9_FinishedRunStaysRunning ==
    [][\A t \in TaskIds :
           (/\ finish_create(t)
            /\ tasks[t].status = "running"
            /\ tasks[t].is_scheduled) =>
               /\ tasks'[t].status = "running"
               /\ ~SkipsRun(tasks'[t].status)]_vars

InactiveStatuses == {"paused", "stopped", "failed", "completed"}

\* C10: the gate rejects paused, stopped, failed and completed, and a timer
\* fire that reads a task in one of them starts no search and no
\* process_single_feed call, publishes nothing, and leaves the task row, the
\* store and the timer registration as they were.
C10_InactiveFireIsNoOp ==
    /\ \A st \in InactiveStatuses : SkipsRun(st)
    /\ [][\A t \in TaskIds :
              TimerFire(t) /\ tasks[t].status \in InactiveStatuses =>
                  /\ UNCHANGED <<tasks, event_queue, jobs, task_jobs, wk,
                                 notes, tickets, session, db_lock, clock>>
                  /\ runs'[<<t, "timer">>].pc = "idle"
                  /\ runs'[<<t, "create">>] = runs[<<t, "create">>]]_vars

\* The callback has been invoked for a task that was stopped, one whose
\* search failed, or one whose first run completed, and it returned at the
\* gate.
C10_Witness ==
    \E t \in TaskIds :
        /\ runs[<<t, "timer">>].last = "skipped"
        /\ runs[<<t, "timer">>].pc = "idle"
        /\ tasks[t].status \in InactiveStatuses
        /\ tasks[t].run_count = 0

(* ====================== runs: empty and failed search ================== *)
\* The step of execute_search_task in which search_feeds returned no feed
\* (lines 671-679); the branch in which it raised ends in status failed.
EmptyCreateSearch(t) ==
    /\ search_create(t)
    /\ runs'[<<t, "create">>].pc = "done"
    /\ tasks'[t].status # "failed"

\* The end of a run of execute_scheduled_task whose search returned no feed
EmptyTimerRunEnds(t) ==
    /\ finish_timer(t)
    /\ runs[<<t, "timer">>].total = 0

\* The events the timer callback has published for the task
TimerEvents(q, t) ==
    SelectSeq(q, LAMBDA e :
        e.task_id = t /\ e.msg \in {"nth", "searching", "found", "nth_done"})

\* C11: a run whose search returns no feed, started by task creation or by
\* the timer, sets the task to completed, publishes exactly one event and
\* hands nothing to process_single_feed.
C11_EmptyRunCompletes ==
    [][\A t \in TaskIds :
           /\ EmptyCreateSearch(t) =>
                  /\ tasks'[t].status = "completed"
                  /\ Len(event_queue') = Len(event_queue) + 1
                  /\ wk' = wk
           /\ EmptyTimerRunEnds(t) =>
                  /\ tasks'[t].status = "completed"
                  /\ Len(TimerEvents(event_queue', t)) = 1
                  /\ wk' = wk]_vars

\* The step in which search_feeds raised inside execute_search_task
\* (654-667) or inside execute_scheduled_task (356-365)
SearchRaised(t) ==
    \/ /\ search_create(t)
       /\ event_queue'[Len(event_queue')].msg = "mcp_error"
    \/ /\ search_timer(t)
       /\ runs'[<<t, "timer">>].pc = "idle"

\* C12: when search_feeds raises in a run, started by task creation or by
\* the timer, the task becomes failed, exactly one task_update with a
\* non-empty error message is published, and no feed is processed.
C12_SearchErrorFailsTask ==
    [][\A t \in TaskIds :
           SearchRaised(t) =>
               /\ tasks'[t].status = "failed"
               /\ Len(event_queue') = Len(event_queue) + 1
               /\ event_queue'[Len(event_queue')].type = "task_update"
               /\ event_queue'[Len(event_queue')].msg # ""
               /\ wk' = wk]_vars

(* ============================ ticket_update ============================ *)
\* The ticket_update events in the queue that carry the ticket of note n
TicketEvents(n) ==
    SelectSeq(event_queue, LAMBDA e : e.type = "ticket_update" /\ e.msg = n)

\* C13: once the run has taken the result of the call that inserted it,
\* every ticket row has exactly one ticket_update event, in creation runs
\* and in timer runs alike, and there is no ticket_update without a row.
C13_TicketUpdatePerTicket ==
    \A n \in NoteIds : Len(TicketEvents(n)) = Cardinality(TicketsOf(n))

(* ============================== /stream ================================ *)
Got(s) == {subs[s].got[i] : i \in 1..Len(subs[s].got)}

\* The message at position i was put while client s was connected, and s
\* is connected still
PublishedFor(s, i) == subs[s].state = "on" /\ subs[s].since < i

\* C14: a message put while two or more clients are connected reaches each
\* of them: when a client has been sent it and nothing is left to read,
\* every other client that was connected at the put has been sent it too.
C14_EveryClientGetsEvent ==
    \A s, u \in Subscribers :
        \A i \in 1..Len(event_queue) :
            (/\ PublishedFor(s, i)
             /\ PublishedFor(u, i)
             /\ i \in Got(s)
             /\ taken = Len(event_queue)) => i \in Got(u)

\* C15: a client is sent only messages that were put after it connected.
C15_OnlyLaterEvents ==
    \A s \in Subscribers : \A i \in Got(s) : subs[s].since < i

(* ============================= delete_task ============================= *)
\* The step in which delete_task finds the row of task t
Deletes(t) == delete_task(t) /\ TaskExists(t)

\* C16: deleting a task removes its row, every ticket and every note whose
\* created_at is at or after the task's created_at, notes without a ticket
\* included.
C16_DeleteRemovesLaterRows ==
    [][\A t \in TaskIds :
           Deletes(t) =>
               /\ tasks'[t] = NoTask
               /\ \A k \in tickets :
                      k.created_at >= tasks[t].created_at => k \notin tickets'
               /\ \A x \in notes :
                      x.created_at >= tasks[t].created_at => x \notin notes']_vars

\* The tasks whose runs submitted a call that inserted a ticket for note n
InsertedBy(n) ==
    {wk[w].run[1] : w \in {v \in Workers : /\ wk[v].outcome = "ticket"
                                           /\ wk[v].id = n}}

\* The ticket was inserted by a run of a task other than t
OfOtherTask(k, t) == InsertedBy(k.note_id) # {} /\ t \notin InsertedBy(k.note_id)

Statuses == {"running", "paused", "stopped", "completed", "failed"}

\* The listed transitions; "absent" is the row before its INSERT and after
\* its DELETE.
ListedTransitions ==
    {<<"absent", "running">>,
     <<"running", "paused">>, <<"paused", "running">>,
     <<"running", "stopped">>, <<"paused", "stopped">>,
     <<"running", "completed">>, <<"running", "failed">>}
        \cup {<<st, "absent">> : st \in Statuses}

\* C18: every change of a task's status is a listed transition: stopped is
\* entered from running or paused only, completed and failed from running
\* only, and only the five statuses are ever stored.
C18_ListedTransitionsOnly ==
    [][\A t \in TaskIds :
           /\ tasks'[t].status \in Statuses \cup {"absent"}
           /\ tasks'[t].status # tasks[t].status =>
                  <<tasks[t].status, tasks'[t].status>> \in ListedTransitions]_vars

(* ============================= search_feeds ============================ *)
\* The step in which a timer run takes an empty list from search_feeds
EmptyTimerSearch(t) ==
    /\ search_timer(t)
    /\ runs'[<<t, "timer">>].pc = "pool"
    /\ runs'[<<t, "timer">>].total = 0

\* C19: a search that failed is never taken for an empty result: a run is
\* told "no feeds", and a new task is marked completed for it, only when
\* the service answered and holds no feed for the keyword.
C19_FailedSearchIsNotEmpty ==
    [][\A t \in TaskIds :
           /\ EmptyCreateSearch(t) => feed_source = <<>>
           /\ EmptyTimerSearch(t) => feed_source = <<>>]_vars

(* ============================ after stop_task ========================== *)
\* stop_task has been called for the task: it alone clears is_scheduled,
\* and nothing sets it again.
HasBeenStopped(t) == TaskExists(t) /\ ~tasks[t].is_scheduled

\* C20: once stop_task has stopped a task, whatever runs are in flight and
\* whatever pause and resume requests arrive, the row never has a status
\* the gate lets through, and a timer fire that reads it returns at the
\* gate: no run, no write, no event.
C20_NoRunAfterStop ==
    /\ [](\A t \in TaskIds : HasBeenStopped(t) => SkipsRun(tasks[t].status))
    /\ [][\A t \in TaskIds :
              TimerFire(t) /\ HasBeenStopped(t) =>
                  /\ runs'[<<t, "timer">>].pc = "idle"
                  /\ UNCHANGED <<tasks, wk, event_queue>>]_vars

\* The timer fired and returned at the gate after the task was stopped,
\* while the workers of its first run were still busy.
C20_Witness ==
    \E t \in TaskIds :
        /\ HasBeenStopped(t)
        /\ runs[<<t, "timer">>].last = "skipped"
        /\ runs[<<t, "create">>].pc = "pool"
        /\ \E w \in Workers : wk[w].run = <<t, "create">> /\ wk[w].pc # "done"

(* ============================ the timer callback ======================= *)
\* The step in which the callback reads a row whose status is running
RunningFire(t) == TimerFire(t) /\ TaskExists(t) /\ tasks[t].status = "running"

\* What RunningFire does before the search: the counter, last_run_at from a
\* fresh reading of the clock, the event with the new message appended to
\* the queue, the search still ahead and no worker started.
FireBookkeeping(t) ==
    /\ tasks'[t].run_count = tasks[t].run_count + 1
    /\ tasks'[t].last_run_at > clock
    /\ tasks'[t].last_run_at <= clock'
    /\ Len(event_queue') > Len(event_queue)
    /\ SubSeq(event_queue', 1, Len(event_queue)) = event_queue
    /\ event_queue'[Len(event_queue) + 1] =
           [type |-> "task_update", task_id |-> t, status |-> "running",
            msg |-> tasks'[t].message]
    /\ runs'[<<t, "timer">>].pc = "search"
    /\ wk' = wk

\* The calls of search_feeds the callback has made for the task: each one
\* publishes "found" when it returns and "failed" when it raises
TimerSearches(t) ==
    Len(SelectSeq(event_queue, LAMBDA e :
            e.task_id = t /\ e.msg \in {"found", "failed"}))

\* Every invocation that passed the gate has made one search, except the
\* one that has not reached its search yet
OneRunPerFire ==
    \A t \in TaskIds :
        TimerSearches(t) = tasks[t].run_count
            - (IF runs[<<t, "timer">>].pc = "search" THEN 1 ELSE 0)

FailedRunEnds(t) ==
    /\ search_timer(t)
    /\ runs'[<<t, "timer">>].pc = "idle"

\* The fire that follows a run that failed: the handler's message is still
\* in the row and the status is running
FireAfterFailure(t) ==
    /\ TimerFireWithin(t, MaxFires)
    /\ tasks[t].message = "failed"
    /\ tasks[t].status = "running"

ErrorReturn(w) ==
    /\ process_single_feed(w)
    /\ wk[w].pc # "done"
    /\ wk'[w].outcome = "error"

\* The first run of the task went through the pool and has ended
PoolRunEnded(t) ==
    /\ runs[<<t, "create">>].pc = "done"
    /\ runs[<<t, "create">>].total > 0

\* C23: when a process_single_feed call fails, on a statement the database
\* rejects or on an event_date strptime cannot parse, it returns the error
\* outcome, db_lock is free again, neither a ticket nor a note has been
\* stored by it and its session is empty; the other calls of the run are
\* untouched and the loop counts the result; a run that has ended has taken
\* the result of every feed, and a run that is in its pool does end, with
\* the task completed.
C23_ErrorStaysInPost ==
    /\ [][\A w \in Workers :
              ErrorReturn(w) =>
                  /\ db_lock' = db_lock_exit(w)
                  /\ tickets' = tickets
                  /\ notes' = notes
                  /\ session'[w] = {}
                  /\ \A v \in Workers \ {w} : wk'[v] = wk[v]
                  /\ runs'[wk[w].run].processed
                         = runs[wk[w].run].processed + 1
                  /\ runs'[wk[w].run].pc = "pool"
                  /\ tasks' = tasks]_vars
    /\ [](\A t \in TaskIds :
              PoolRunEnded(t) =>
                  /\ runs[<<t, "create">>].processed
                         = runs[<<t, "create">>].total
                  /\ AllReturned(<<t, "create">>)
                  /\ tasks[t].status = "completed")
    /\ \A t \in TaskIds :
           (runs[<<t, "create">>].pc = "pool") ~> PoolRunEnded(t)

\* A run has ended, completed, in which one call failed on a statement the
\* database rejected and another stored its ticket.
C23_Witness ==
    \E t \in TaskIds : \E w, v \in Workers :
        /\ PoolRunEnded(t)
        /\ tasks[t].status = "completed"
        /\ wk[w].run = <<t, "create">>
        /\ wk[v].run = <<t, "create">>
        /\ wk[w].outcome = "error"
        /\ wk[w].verdict # "posbad"
        /\ wk[v].outcome = "ticket"
        /\ store_faults = 0

(* ============================ the pool's join ========================== *)
\* The calls run r submitted that have not returned yet
InFlight(r) == {w \in Workers : wk[w].run = r /\ wk[w].pc \notin {"free", "done"}}

\* The run is past its executor: execute_search_task has returned, or the
\* callback has returned and no later invocation is in progress
Finished(r) ==
    IF r[2] = "create" THEN runs[r].pc = "done"
    ELSE runs[r].pc = "idle" /\ runs[r].last = "ran"

\* The step publishes the last event of a run that went through its pool, or
\* writes what that run writes to the row at its end
EndsRun(r) ==
    \/ /\ Len(event_queue') > Len(event_queue)
       /\ event_queue'[Len(event_queue')].task_id = r[1]
       /\ event_queue'[Len(event_queue')].msg
              = (IF r[2] = "create" THEN "summary" ELSE "nth_done")
    \/ /\ r[2] = "create"
       /\ runs[r].pc = "pool"
       /\ tasks'[r[1]].status = "completed"
       /\ tasks[r[1]].status # "completed"
    \/ /\ r[2] = "timer"
       /\ tasks'[r[1]].message = "nth_done"
       /\ tasks[r[1]].message # "nth_done"

\* C24: no run is finished while a process_single_feed call it submitted is
\* in flight, and the step that publishes a run's last event or writes its
\* final status or message is taken only when every call has returned and,
\* in execute_search_task, every result has been counted.
C24_FinishAfterJoin ==
    /\ [](\A r \in RunIds : Finished(r) => InFlight(r) = {})
    /\ [][\A r \in RunIds :
              EndsRun(r) =>
                  /\ InFlight(r) = {}
                  /\ r[2] = "create" => runs[r].processed = runs[r].total]_vars

\* A timer run ended after a call that went through the store, while the
\* first run of the task is still waiting for a call of its own.
C24_Witness ==
    \E t \in TaskIds :
        /\ Finished(<<t, "timer">>)
        /\ tasks[t].message = "nth_done"
        /\ \E w \in Workers :
               /\ wk[w].run = <<t, "timer">>
               /\ wk[w].outcome \in {"ticket", "no_ticket"}
        /\ runs[<<t, "create">>].pc = "pool"
        /\ InFlight(<<t, "create">>) # {}

(* ======================= /stream: disconnection ======================== *)
\* The step removes a message from the Queue
Takes == taken' # taken

\* The message the step removes is sent to a client that is connected
TakenForConnected ==
    \E s \in Subscribers :
        /\ subs[s].state = "on"
        /\ subs'[s].got = Append(subs[s].got, taken + 1)

\* C25: once a client has disconnected no message is removed from the Queue
\* for it, so every message removed goes to a connected client; and
\* notify_clients only ever appends to the Queue, however many clients are
\* connected.
C25_NoTakeAfterDisconnect ==
    [][/\ Takes => TakenForConnected
       /\ Len(event_queue') >= Len(event_queue)
       /\ SubSeq(event_queue', 1, Len(event_queue)) = event_queue]_vars

(* ========================== /stream: heartbeat ========================= *)
\* The step in which the generator of a connected client yields a heartbeat
BeatsConnected(s) == heartbeat(s) /\ subs[s].state = "on"

\* The message at position i was put after client s was sent a heartbeat
PublishedAfterBeat(s, i) == subs[s].beats > 0 /\ subs[s].beat_at < i

\* C26: a heartbeat goes to a client whose get found the Queue empty; it
\* leaves the Queue, the messages sent so far and the connection as they
\* were; and a message put afterwards is sent to that client: when the
\* client is still connected and nothing is left to read, it has been sent
\* every message that was put after its heartbeat.
C26_HeartbeatKeepsStream ==
    /\ [][\A s \in Subscribers :
              BeatsConnected(s) =>
                  /\ taken = Len(event_queue)
                  /\ subs'[s].state = "on"
                  /\ subs'[s].got = subs[s].got
                  /\ UNCHANGED <<event_queue, taken>>]_vars
    /\ [](\A s \in Subscribers :
              \A i \in 1..Len(event_queue) :
                  (/\ subs[s].state = "on"
                   /\ PublishedAfterBeat(s, i)
                   /\ taken = Len(event_queue)) => i \in Got(s))

(* ============================ /stream: order =========================== *)
\* C27: the messages one client is sent are in the order in which they were
\* put on the Queue, however the puts and the other clients' reads
\* interleave.
C27_PublishOrderPerClient ==
    \A s \in Subscribers :
        \A i, j \in 1..Len(subs[s].got) :
            i < j => subs[s].got[i] < subs[s].got[j]

\* A client has been sent two messages and another client was sent one that
\* was put between them.
C27_Witness ==
    \E s, u \in Subscribers :
        /\ s # u
        /\ Len(subs[s].got) >= 2
        /\ \E k \in Got(u) : subs[s].got[1] < k /\ k < subs[s].got[2]

(* ===================== requests without a timer ======================== *)
\* An admin request for a task id the scheduler holds no job for
Unregistered(t) ==
    /\ ~Registered(t)
    /\ pause_task(t) \/ resume_task(t) \/ stop_task(t)

ProgressDue(k, total) == k % ProgressEvery = 0 \/ k = total

\* The progress events in a queue
ProgressIn(q) == SelectSeq(q, LAMBDA e : e.msg = "progress")

Outcomes ==
    {"ticket", "no_ticket", "ticket_exists", "already_exists", "error",
     "not_note_type", "incomplete_data"}

\* One turn of the loop of a run over `total` feeds, taking result number k
\* when `found` tickets had been counted: a progress event exactly when it
\* is due, and the totals after it count this result.
TurnReports(kind, total, k, found, outcome) ==
    LET run == [IdleRun EXCEPT !.pc = "pool", !.total = total,
                               !.processed = k - 1, !.ticket_count = found]
        c == Collect(kind, run, <<>>, 1, outcome, "n1")
    IN /\ Len(ProgressIn(c.q)) = (IF ProgressDue(k, total) THEN 1 ELSE 0)
       /\ c.run.processed = k
       /\ c.run.ticket_count
              = found + (IF outcome = "ticket" THEN 1 ELSE 0)

ProgressRule(kind) ==
    \A total \in 1..MaxFetched : \A k \in 1..total : \A found \in 0..(k - 1) :
        \A outcome \in Outcomes : TurnReports(kind, total, k, found, outcome)

\* The progress events due for the results run r has taken so far
ProgressOwed(r) ==
    Cardinality({k \in 1..runs[r].processed : ProgressDue(k, runs[r].total)})

\* C29: in a run over N > 0 feeds the loop publishes a progress task_update
\* after result k exactly when k is a multiple of 5 or k = N, with
\* processed and ticket totals that count the results taken so far, in
\* execute_search_task and in execute_scheduled_task alike.
C29_ProgressEveryFifth ==
    /\ ProgressRule("create")
    /\ \A t \in TaskIds :
           Len(SelectSeq(ProgressIn(event_queue), LAMBDA e : e.task_id = t))
               = ProgressOwed(<<t, "create">>) + ProgressOwed(<<t, "timer">>)

(* ============================= the summary ============================= *)
\* The calls of run r whose classification was positive
Positives(r) ==
    {w \in Workers : wk[w].run = r /\ wk[w].verdict \in {"pos", "posbad"}}

\* The calls of run r that inserted a ticket
PersistedBy(r) == {w \in Workers : wk[w].run = r /\ wk[w].outcome = "ticket"}

EventsOf(t, type) ==
    Len(SelectSeq(event_queue, LAMBDA e : e.task_id = t /\ e.type = type))

\* The other run of the task of r
OtherRun(r) == <<r[1], IF r[2] = "create" THEN "timer" ELSE "create">>

\* C30: a run that went through its pool ends with a total equal to the
\* number of feeds fetched and a ticket count equal to the number of
\* tickets its calls inserted; a run over three feeds of which exactly one
\* is classified positive ends with 3 and 1, and has published exactly one
\* ticket_update and at least one task_update.
C30_SummaryCounts ==
    \A r \in RunIds :
        Finished(r) /\ runs[r].total > 0 =>
            /\ runs[r].total = Len(feed_source)
            /\ runs[r].ticket_count = Cardinality(PersistedBy(r))
            /\ (/\ Len(feed_source) = 3
                /\ Cardinality(Positives(r)) = 1
                /\ Positives(OtherRun(r)) = {}) =>
                   /\ runs[r].total = 3
                   /\ runs[r].ticket_count = 1
                   /\ EventsOf(r[1], "ticket_update") = 1
                   /\ EventsOf(r[1], "task_update") >= 1

(* ===================== classification outside the lock ================= *)
\* The worker is inside analyze_ticket_content (546)
Classifying(w) == wk[w].pc = "analyze"

\* The worker is inside one of its "with db_lock:" blocks
InLockedBlock(w) == wk[w].pc \in {"note", "ticket", "commit"}

\* The worker is at the entry of one of its "with db_lock:" blocks
AtLock(w) == wk[w].pc \in {"start", "decided"}

\* C31: a worker whose classifier call is in progress does not hold
\* db_lock; the holder, when there is one, is inside a check-then-insert
\* block; so while workers are classifying, a worker that waits at a block
\* enters it as soon as no other worker is inside one.
C31_ClassifiesOutsideLock ==
    /\ \A w \in Workers : Classifying(w) => db_lock # w
    /\ db_lock # NoLock => InLockedBlock(db_lock)
    /\ \A v \in Workers :
           (AtLock(v) /\ \A u \in Workers : ~InLockedBlock(u)) =>
               ENABLED (note_lock(v) \/ second_lock(v))

\* One worker is in its classifier call while another is inside the block
\* that checks and inserts the note.
C31_Witness ==
    \E w, v \in Workers :
        /\ Classifying(w)
        /\ wk[v].pc = "note"
        /\ db_lock = v

(* ===================== one timer per task id =========================== *)
\* The registry the monitor holds: the scheduler's jobs and task_jobs
Registry == [jobs |-> jobs, task_jobs |-> task_jobs]

\* add_task_schedule(t, kw, interval) on a registry
Schedule(reg, t, kw) ==
    add_task_schedule(reg.jobs, reg.task_jobs, t, kw, ScheduleInterval)

\* C32: whatever add_task_schedule calls have been made, the scheduler
\* holds at most one job per task id; a further call for any id leaves
\* exactly one job under that id, the new one, in place of the job that
\* was there, and leaves the jobs of other ids alone; the same call made
\* twice leaves the registry the first call left.
C32_OneTimerPerTask ==
    \A t \in TaskIds :
        /\ Cardinality(JobsOf(jobs, t)) <= 1
        /\ \A kw \in Keywords :
               LET once == Schedule(Registry, t, kw) IN
               /\ JobsOf(once.jobs, t) =
                      {Job(t, "armed", kw, ScheduleInterval)}
               /\ once.jobs \ JobsOf(once.jobs, t) = jobs \ JobsOf(jobs, t)
               /\ Schedule(once, t, kw) = once

\* A task whose timer Monitor.start had restored was deleted, the request
\* finding the timer still in the scheduler, and the task created next took
\* the id of the deleted row: add_task_schedule installed its timer, which
\* carries the new keyword, over the one the deleted row had left.
C32_Witness ==
    \E t \in TaskIds :
        /\ api.op = "delete"
        /\ api.task = t
        /\ api.registered
        /\ TaskExists(t)
        /\ tasks[t].created_at > 0
        /\ jobs = {Job(t, "armed", "keyword", ScheduleInterval)}
        /\ TaskKey(t) \in task_jobs

(* ===================== keyword refinement fails open =================== *)
\* The keyword a run searches with when it was given kw
SearchedWith(kw) == IF refiner = "answer" THEN "refined" ELSE kw

\* C33: whatever the refinement request meets, execute_search_task that
\* has run for a task has committed its row, registered its timer and
\* entered the first run, and a timer fire that got past the gate has
\* entered its run; the run searches with the refined keyword when the
\* model answered and with the original keyword otherwise.
C33_RefinementFailsOpen ==
    \A t \in SchedIds :
        /\ runs[<<t, "create">>].pc # "idle" =>
               /\ TaskExists(t)
               /\ job_state(jobs, t) = "armed"
               /\ runs[<<t, "create">>].keyword = SearchedWith("keyword")
        /\ runs[<<t, "timer">>].last = "ran" =>
               runs[<<t, "timer">>].keyword =
                   SearchedWith(job_keyword(jobs, t))

\* The refinement fails; the first run of the task has finished and a
\* timer run has processed a feed, both having searched with the original
\* keyword.
C33_Witness ==
    \E t \in SchedIds :
        /\ refiner # "answer"
        /\ runs[<<t, "create">>].pc = "done"
        /\ runs[<<t, "create">>].keyword = "keyword"
        /\ runs[<<t, "timer">>].last = "ran"
        /\ runs[<<t, "timer">>].keyword = "keyword"
        /\ runs[<<t, "timer">>].total > 0
        /\ tasks[t].status = "completed"

(* ===================== a failing classifier is a negative ============== *)
\* The worker has its answer from analyze_ticket_content
HasAnswer(w) == wk[w].verdict # "none"

\* C34: while the classification service fails, every call that got its
\* answer holds a negative verdict and returns success without a ticket;
\* no call returns error or a ticket, no ticket is stored, no
\* ticket_update is published, and a task is marked failed only by a run
\* none of whose posts reached the classifier (its search failed).
C34_FailedClassifierIsNegative ==
    classifier # "up" =>
        /\ \A w \in Workers :
               /\ HasAnswer(w) => wk[w].verdict = "neg"
               /\ (HasAnswer(w) /\ wk[w].pc = "done") =>
                      wk[w].outcome = "no_ticket"
               /\ wk[w].pc # "ticket"
               /\ wk[w].outcome \notin {"error", "ticket", "ticket_exists"}
        /\ tickets = {}
        /\ \A i \in 1..Len(event_queue) :
               event_queue[i].type # "ticket_update"
        /\ \A t \in SchedIds :
               tasks[t].status = "failed" =>
                   \A w \in Workers : wk[w].run[1] = t => ~HasAnswer(w)

\* The service fails; two calls have got its answer and returned, and the
\* run that submitted them has completed.
C34_Witness ==
    /\ classifier # "up"
    /\ \A w \in Workers :
           /\ HasAnswer(w)
           /\ wk[w].pc = "done"
           /\ wk[w].outcome = "no_ticket"
    /\ \E t \in SchedIds : tasks[t].status = "completed"

(* ===================== one run of a task at a time ===================== *)
\* The run has fetched feeds and not yet taken the result of each of them
Processing(r) == runs[r].pc = "pool"

\* C35: the first run of a task and a timer run of the same task are never
\* processing posts at the same time.
C35_OneRunInFlight ==
    \A t \in SchedIds :
        ~(Processing(<<t, "create">>) /\ Processing(<<t, "timer">>))

(* ===================== tickets reference stored notes ================== *)
\* C36: every ticket in table tickets carries the note_id of a note in
\* table notes.
C36_TicketHasNote ==
    \A k \in tickets : \E x \in notes : x.note_id = k.note_id

(* ===================== timers of deleted tasks ========================= *)
\* C37: every job the scheduler holds belongs to a task whose row exists,
\* and the timer callback has not been invoked for a task without a row.
C37_NoTimerAfterDelete ==
    \A t \in TaskIds :
        ~TaskExists(t) =>
            /\ job_state(jobs, t) = "none"
            /\ runs[<<t, "timer">>].last # "skipped"

(* ===================== stopped is final ================================ *)
\* C38: no step changes the status of a task whose status is stopped.
C38_StoppedIsFinal ==
    [][\A t \in SchedIds :
           tasks[t].status = "stopped" => tasks'[t].status = "stopped"]_vars

(* ===================== every run terminates ============================ *)
\* C39: with a database that may reject a statement and a classifier that
\* may return a date that cannot be parsed, db_lock is never held by a
\* call that is outside its locked blocks (so every return and every
\* exception out of a block released it); every submitted call returns; a
\* call that waits for db_lock gets it; and every first run that started
\* ends.
C39_RunsTerminate ==
    /\ [](\A w \in Workers : db_lock = w => InLockedBlock(w))
    /\ \A w \in Workers : (wk[w].pc # "free") ~> (wk[w].pc = "done")
    /\ \A w \in Workers : AtLock(w) ~> InLockedBlock(w)
    /\ \A t \in SchedIds :
           (runs[<<t, "create">>].pc # "idle") ~>
               (runs[<<t, "create">>].pc = "done")

\* Both calls of a run waited for db_lock and have returned, one of them
\* out of the ticket block because the other had stored the ticket; db_lock
\* is free and the run has ended.
C39_Witness ==
    \E w, v \in Workers :
        /\ wk[w].pc = "done"
        /\ wk[v].pc = "done"
        /\ wk[w].outcome = "ticket"
        /\ wk[v].outcome = "ticket_exists"
        /\ db_lock = NoLock
        /\ runs[wk[v].run].pc = "done"

(* ===================== Monitor.start =================================== *)
\* The step is the call of Monitor.start that starts the scheduler
Starts == ~is_running /\ is_running'

\* C40: the call of Monitor.start that starts the scheduler leaves one
\* armed job, with the stored interval, for every task whose stored status
\* is running and whose is_scheduled is set, and no job for any other
\* task; Monitor.start on a running monitor leaves the registry as it is.
C40_StartRestoresActive ==
    /\ [][Starts =>
              \A t \in TaskIds :
                  JobsOf(jobs', t) =
                      IF tasks[t].status = "running" /\ tasks[t].is_scheduled
                      THEN {Job(t, "armed", "msg",
                                tasks[t].schedule_interval)}
                      ELSE {}]_vars
    /\ [](is_running =>
              started(is_running, Registry, ActiveTasks) = Registry)

\* Monitor.start has just returned: one stored task was running and
\* scheduled and has its job, the other was stopped, completed or failed
\* and has none; nothing else has happened in the process.
C40_Witness ==
    \E t, u \in TaskIds :
        /\ is_running
        /\ api.n = 0
        /\ clock = 0
        /\ \A r \in RunIds : runs[r] = IdleRun
        /\ tasks[t].status = "running"
        /\ tasks[t].is_scheduled
        /\ jobs = {Job(t, "armed", "msg", ScheduleInterval)}
        /\ tasks[u].status \in {"stopped", "completed", "failed"}

=============================================================================
